---- MODULE Spec2Model ----
(***************************************************************************)
(* A model of wayback_machine_scraper's WaybackMachineMiddleware: the      *)
(* snapshot selector (filter_snapshots) and the request/response mediator  *)
(* (process_request, process_response, build_cdx_request,                  *)
(* build_snapshot_requests).                                               *)
(***************************************************************************)
EXTENDS Integers, Sequences, FiniteSets, TLC

VARIABLES
    settings,       \* crawler.settings['WAYBACK_MACHINE_TIME_RANGE'], as configured
    time_range,     \* self.time_range: <<start, end>> in epoch ticks
    snapshots,      \* the list of dicts handed to filter_snapshots
    scan,           \* the locals of filter_snapshots and its loop position
    scheduler,      \* requests the engine holds, not yet through process_request
    downloading,    \* requests process_request let through, awaiting a response
    last,           \* the latest call of a handler: what it was given and returned
    attempts        \* per logical request, the responses delivered for it so far

selvars == <<time_range, snapshots, scan>>

medvars == <<scheduler, downloading, last, attempts>>

vars == <<settings, time_range, snapshots, scan, scheduler, downloading, last, attempts>>

(***************************************************************************)
(* Bounds of the model.                                                    *)
(***************************************************************************)
MaxEntries == 3     \* an index listing holds at most MaxEntries rows
MaxRows == 2        \* rows of an index response the mediator is handed

\* archived instants: a tick before, two at the edges of, and one after the
\* widest configured window
Instants == 0..3

(***************************************************************************)
(* Values.  A timestamp string is well formed (14 digits naming a tick) or *)
(* not; a datetime is what strptime makes of it, or None.                  *)
(***************************************************************************)
Timestamps == [wellformed : {TRUE}, tick : Instants] \cup {[wellformed |-> FALSE, tick |-> 0]}

NoneDatetime == [parsed |-> FALSE, tick |-> 0]

NoneDigest == "None"

Digests == {"A", "B"}

StatusCodes == {"200", "301", "404", "20", "-"}

OriginalUrls == {"http://a"}

\* datetime.strptime(row[i], timestamp_format).replace(tzinfo=utc), or None on ValueError
strptime(ts) ==
    IF ts.wellformed THEN [parsed |-> TRUE, tick |-> ts.tick] ELSE NoneDatetime

\* datetime.timestamp(): the epoch tick of a parsed datetime
timestamp(dt) == dt.tick

\* str.isdigit() on a status-code field
isdigit(s) == s \in {"200", "301", "404", "20"}

\* int() of a status-code field made of digits
int(s) == CASE s = "200" -> 200 [] s = "301" -> 301 [] s = "404" -> 404 [] s = "20" -> 20

\* the header row of the index listing
keys == <<"timestamp", "original", "statuscode", "digest">>

\* the full rows of a listing, in the order of keys: every capture with status
\* 200, and in one digest a redirect and an error capture at every instant, a
\* status field of two digits, an unknown status, a timestamp that does not parse
Rows ==
    {<<ts, o, "200", d>> : ts \in Timestamps \ {[wellformed |-> FALSE, tick |-> 0]},
                           o \in OriginalUrls, d \in Digests}
    \cup {<<ts, o, sc, "A">> : ts \in Timestamps \ {[wellformed |-> FALSE, tick |-> 0]},
                               o \in OriginalUrls, sc \in {"301", "404"}}
    \cup {<<[wellformed |-> TRUE, tick |-> 1], o, sc, "A">> : o \in OriginalUrls, sc \in {"20", "-"}}
    \cup {<<[wellformed |-> FALSE, tick |-> 0], o, "200", "A">> : o \in OriginalUrls}

\* build_dict raises IndexError on a row shorter than the header
build_dict_raises(row) == Len(row) < Len(keys)

build_dict(row) ==
    [datetime   |-> strptime(row[1]),
     timestamp  |-> row[1],
     original   |-> row[2],
     statuscode |-> row[3],
     digest     |-> row[4]]

(***************************************************************************)
(* filter_snapshots.  The locals are kept in a record; the output list and *)
(* the pending anchor hold positions of the input list (the dict objects   *)
(* themselves), 0 standing for None.                                       *)
(***************************************************************************)
ScanInit ==
    [filtered_snapshots |-> << >>,
     initial_snapshot   |-> 0,
     last_digest        |-> NoneDigest,
     pos                |-> 1,
     broke              |-> FALSE]

\* Skipped as it would be if only error codes were dropped, redirects kept
Skipped_KeepsRedirects(snapshot) ==
    \/ ~snapshot.datetime.parsed
    \/ ~isdigit(snapshot.statuscode)
    \/ int(snapshot.statuscode) >= 400

\* Skipped as it would be if error captures (status >= 400) were kept
Skipped_OnlyRedirects(snapshot) ==
    \/ ~snapshot.datetime.parsed
    \/ ~isdigit(snapshot.statuscode)
    \/ (int(snapshot.statuscode) >= 300 /\ int(snapshot.statuscode) < 400)

\* the three "continue" tests at the head of the loop body
Skipped(snapshot) ==
    \/ ~snapshot.datetime.parsed
    \/ ~isdigit(snapshot.statuscode)
    \/ int(snapshot.statuscode) >= 300

\* AnchorPhase as it would be if a pending anchor were never overwritten
AnchorPhase_KeepsFirst(st, snaps, i, tr) ==
    IF st.filtered_snapshots = << >>
    THEN IF timestamp(snaps[i].datetime) > tr[1]
         THEN IF st.initial_snapshot # 0
              THEN [st EXCEPT !.filtered_snapshots = Append(@, st.initial_snapshot),
                              !.last_digest = snaps[st.initial_snapshot].digest]
              ELSE st
         ELSE IF st.initial_snapshot = 0 THEN [st EXCEPT !.initial_snapshot = i] ELSE st
    ELSE st

\* AnchorPhase as it would be if emitting the anchor left last_digest alone
AnchorPhase_NoDigest(st, snaps, i, tr) ==
    IF st.filtered_snapshots = << >>
    THEN IF timestamp(snaps[i].datetime) > tr[1]
         THEN IF st.initial_snapshot # 0
              THEN [st EXCEPT !.filtered_snapshots = Append(@, st.initial_snapshot)]
              ELSE st
         ELSE [st EXCEPT !.initial_snapshot = i]
    ELSE st

\* AnchorPhase as it would be without the test "if not filtered_snapshots"
AnchorPhase_Unguarded(st, snaps, i, tr) ==
    IF timestamp(snaps[i].datetime) > tr[1]
    THEN IF st.initial_snapshot # 0
         THEN [st EXCEPT !.filtered_snapshots = Append(@, st.initial_snapshot),
                         !.last_digest = snaps[st.initial_snapshot].digest]
         ELSE st
    ELSE [st EXCEPT !.initial_snapshot = i]

\* "if not filtered_snapshots: ..." : emit the pending anchor at the crossing
\* point, or record the entry as the pending anchor
AnchorPhase(st, snaps, i, tr) ==
    IF st.filtered_snapshots = << >>
    THEN IF timestamp(snaps[i].datetime) > tr[1]
         THEN IF st.initial_snapshot # 0
              THEN [st EXCEPT !.filtered_snapshots = Append(@, st.initial_snapshot),
                              !.last_digest = snaps[st.initial_snapshot].digest]
              ELSE st
         ELSE [st EXCEPT !.initial_snapshot = i]
    ELSE st

\* RangePhase as it would be without the break past the window's end
RangePhase_NoEndCheck(st, snaps, i, tr) ==
    IF timestamp(snaps[i].datetime) < tr[1] THEN st
    ELSE IF st.last_digest = snaps[i].digest THEN st
    ELSE [st EXCEPT !.last_digest = snaps[i].digest,
                    !.filtered_snapshots = Append(@, i)]

\* the range and digest tests and the final append
RangePhase(st, snaps, i, tr) ==
    IF timestamp(snaps[i].datetime) < tr[1] THEN st
    ELSE IF timestamp(snaps[i].datetime) > tr[2] THEN [st EXCEPT !.broke = TRUE]
    ELSE IF st.last_digest = snaps[i].digest THEN st
    ELSE [st EXCEPT !.last_digest = snaps[i].digest,
                    !.filtered_snapshots = Append(@, i)]

\* one iteration of "for snapshot in snapshots"
LoopBody(st, snaps, tr) ==
    LET i    == st.pos
        next == [st EXCEPT !.pos = i + 1]
    IN  IF Skipped(snaps[i]) THEN next
        ELSE RangePhase(AnchorPhase(next, snaps, i, tr), snaps, i, tr)

ScanDone(st, snaps) == st.broke \/ st.pos > Len(snaps)

RECURSIVE RunScan(_, _, _)
RunScan(st, snaps, tr) ==
    IF ScanDone(st, snaps) THEN st ELSE RunScan(LoopBody(st, snaps, tr), snaps, tr)

\* filter_snapshots(snapshots): the selected dicts, in order
filter_snapshots(snaps, tr) ==
    LET out == RunScan(ScanInit, snaps, tr).filtered_snapshots
    IN  [k \in 1..Len(out) |-> snaps[out[k]]]

(***************************************************************************)
(* URLs, requests and responses.  A URL is the live URL of a page, the     *)
(* archive's robots.txt, an index (CDX) query for a live URL, or the       *)
(* archived copy of a URL at a timestamp.                                  *)
(***************************************************************************)
NoTimestamp == [wellformed |-> FALSE, tick |-> -1]

NoUrl == [site |-> "", path |-> "", ts |-> NoTimestamp]

LiveUrl(u) == [site |-> "live", path |-> u, ts |-> NoTimestamp]

robots_txt == [site |-> "web.archive.org/robots.txt", path |-> "", ts |-> NoTimestamp]

\* 'https://web.archive.org/cdx/search/cdx?url=' + the encoded base of url
cdx_url(url) == [site |-> "web.archive.org/cdx", path |-> url.path, ts |-> NoTimestamp]

\* snapshot_url_template.format(**snapshot)
snapshot_url_template(snapshot) ==
    [site |-> "web.archive.org/web", path |-> snapshot.original, ts |-> snapshot.timestamp]

IsArchiveUrl(url) == url.site \in {robots_txt.site, "web.archive.org/cdx", "web.archive.org/web"}

\* request.meta of a request no middleware has touched; an absent key reads as
\* its .get() default: no original request is << >>, no retry counter is 0
DefaultMeta ==
    [wayback_machine_cdx_request      |-> FALSE,
     wayback_machine_url              |-> NoUrl,
     wayback_machine_original_request |-> << >>,
     wayback_machine_time             |-> NoneDatetime,
     retry_times                      |-> 0]

\* chain names the logical request: a copy made for a retry keeps it
NewRequest(url, chain) ==
    [url |-> url, dont_filter |-> FALSE, meta |-> DefaultMeta, chain |-> chain]

\* a response body as json.loads meets it: "empty" (no text) and "invalid" (text
\* that is not JSON) raise JSONDecodeError, "scalar" is JSON that has no len(),
\* "array" is a JSON array, data holding its elements (the header row first)
EmptyBody == [json |-> "empty", data |-> << >>]

PageBody == [json |-> "invalid", data |-> << >>]

Response(url, status) == [url |-> url, status |-> status, body |-> EmptyBody]

(***************************************************************************)
(* process_request and build_cdx_request.  A handler returns << >> for     *)
(* None and <<request>> for a request.                                     *)
(***************************************************************************)
build_cdx_request(request) ==
    [url         |-> cdx_url(request.url),
     dont_filter |-> TRUE,
     meta        |-> [DefaultMeta EXCEPT !.wayback_machine_original_request = <<request>>,
                                         !.wayback_machine_cdx_request = TRUE],
     chain       |-> request.chain]

\* process_request as it would be without the test for an index query
process_request_NoCdxCheck(request) ==
    IF request.url = robots_txt THEN << >>
    ELSE IF request.meta.wayback_machine_url # NoUrl THEN << >>
    ELSE <<build_cdx_request(request)>>

process_request(request) ==
    IF request.url = robots_txt THEN << >>
    ELSE IF request.meta.wayback_machine_url # NoUrl THEN << >>
    ELSE IF request.meta.wayback_machine_cdx_request THEN << >>
    ELSE <<build_cdx_request(request)>>

(***************************************************************************)
(* build_snapshot_requests and process_response.  process_response returns *)
(* the request or the response it hands back and the requests it enqueued  *)
(* with the scheduler on the way.                                          *)
(***************************************************************************)
\* snapshot_request as it would be if wayback_machine_time were not set
snapshot_request_NoTime(snapshot, meta, k) ==
    LET url == snapshot_url_template(snapshot)
        original_request == meta.wayback_machine_original_request[1]
    IN  [url         |-> url,
         dont_filter |-> TRUE,
         meta        |-> [original_request.meta EXCEPT
                              !.wayback_machine_original_request = <<original_request>>,
                              !.wayback_machine_url = url],
         chain       |-> <<original_request.chain[1], k>>]

\* snapshot_request as it would be if duplicate filtering were left on
snapshot_request_Filtered(snapshot, meta, k) ==
    LET url == snapshot_url_template(snapshot)
        original_request == meta.wayback_machine_original_request[1]
    IN  [url         |-> url,
         dont_filter |-> FALSE,
         meta        |-> [original_request.meta EXCEPT
                              !.wayback_machine_original_request = <<original_request>>,
                              !.wayback_machine_url = url,
                              !.wayback_machine_time = snapshot.datetime],
         chain       |-> <<original_request.chain[1], k>>]

\* one turn of "for snapshot in filtered_snapshots": the k-th snapshot request
snapshot_request(snapshot, meta, k) ==
    LET url == snapshot_url_template(snapshot)
        original_request == meta.wayback_machine_original_request[1]
    IN  [url         |-> url,
         dont_filter |-> TRUE,
         meta        |-> [original_request.meta EXCEPT
                              !.wayback_machine_original_request = <<original_request>>,
                              !.wayback_machine_url = url,
                              !.wayback_machine_time = snapshot.datetime],
         chain       |-> <<original_request.chain[1], k>>]

\* raised: an exception left build_snapshot_requests (len() of a scalar, a row
\* shorter than the header)
build_snapshot_requests(response, meta) ==
    LET body == response.body
        none == [raised |-> FALSE, requests |-> << >>]
    IN  IF body.json \in {"empty", "invalid"} THEN none
        ELSE IF body.json = "scalar" THEN [raised |-> TRUE, requests |-> << >>]
        ELSE IF Len(body.data) < 2 THEN none
        ELSE LET rows == Tail(body.data)
             IN  IF \E k \in 1..Len(rows) : build_dict_raises(rows[k])
                 THEN [raised |-> TRUE, requests |-> << >>]
                 ELSE LET snaps == [k \in 1..Len(rows) |-> build_dict(rows[k])]
                          filtered_snapshots == filter_snapshots(snaps, time_range)
                      IN  [raised   |-> FALSE,
                           requests |-> [k \in 1..Len(filtered_snapshots) |->
                                            snapshot_request(filtered_snapshots[k], meta, k)]]

\* the retry test as it would be with a budget one short
RetryAllowed_OneShort(retries) == retries < 2

\* "if retries < 3"
RetryAllowed(retries) == retries < 3

Surface(response) == [request |-> << >>, response |-> <<response>>, enqueued |-> << >>]

Reissue(request) == [request |-> <<request>>, response |-> << >>, enqueued |-> << >>]

\* HandleError as it would be if every status >= 400 but 404 were retried
HandleError_RetryAnyError(request, response) ==
    IF response.status = 404 THEN Surface(response)
    ELSE IF response.status >= 400 /\ RetryAllowed(request.meta.retry_times)
         THEN Reissue([request EXCEPT !.meta.retry_times = @ + 1, !.dont_filter = TRUE])
         ELSE Surface(response)

\* HandleError as it would be if the copy's retry counter were not incremented
HandleError_NoCount(request, response) ==
    IF response.status = 404 THEN Surface(response)
    ELSE IF response.status >= 500 /\ RetryAllowed(request.meta.retry_times)
         THEN Reissue([request EXCEPT !.dont_filter = TRUE])
         ELSE Surface(response)

\* HandleError as it would be if the copy did not carry the archived instant
HandleError_DropsTime(request, response) ==
    IF response.status = 404 THEN Surface(response)
    ELSE IF response.status >= 500 /\ RetryAllowed(request.meta.retry_times)
         THEN Reissue([request EXCEPT !.meta.retry_times = @ + 1, !.dont_filter = TRUE,
                                      !.meta.wayback_machine_time = NoneDatetime])
         ELSE Surface(response)

\* the branch for status >= 400 on a request that is no index query
HandleError(request, response) ==
    IF response.status = 404 THEN Surface(response)
    ELSE IF response.status >= 500 /\ RetryAllowed(request.meta.retry_times)
         THEN Reissue([request EXCEPT !.meta.retry_times = @ + 1, !.dont_filter = TRUE])
         ELSE Surface(response)

\* HandleCdx as it would be without the test "if not snapshot_requests"
HandleCdx_NoEmptyCheck(request, response) ==
    LET meta == request.meta
        built == build_snapshot_requests(response, meta)
        original_url == meta.wayback_machine_original_request[1].url
    IN  IF built.raised THEN [request |-> << >>, response |-> <<response>>, enqueued |-> << >>]
        ELSE [request  |-> << >>,
              response |-> <<Response(original_url, 200)>>,
              enqueued |-> built.requests]

\* the branch for the response of an index query
HandleCdx(request, response) ==
    LET meta == request.meta
        built == build_snapshot_requests(response, meta)
        original_url == meta.wayback_machine_original_request[1].url
    IN  IF built.raised THEN Surface(response)
        ELSE IF built.requests = << >> THEN Surface(Response(original_url, 404))
        ELSE [request  |-> << >>,
              response |-> <<Response(original_url, 200)>>,
              enqueued |-> built.requests]

\* the branch that restores the original URL on a snapshot's response
HandleSnapshot(request, response) ==
    IF request.meta.wayback_machine_original_request # << >>
    THEN Surface([response EXCEPT !.url = request.meta.wayback_machine_original_request[1].url])
    ELSE Surface(response)

process_response(request, response) ==
    IF response.status >= 400 /\ ~request.meta.wayback_machine_cdx_request
    THEN HandleError(request, response)
    ELSE IF request.meta.wayback_machine_cdx_request THEN HandleCdx(request, response)
    ELSE IF request.meta.wayback_machine_url # NoUrl THEN HandleSnapshot(request, response)
    ELSE Surface(response)

\* response.meta as the spider reads it: the meta of the request answered
ResponseMeta(request) == request.meta

(***************************************************************************)
(* The selector on its own: every listing of at most MaxEntries full rows  *)
(* and every configured pair of instants, scanned one entry per step.      *)
(***************************************************************************)
RECURSIVE SeqsUpTo(_, _)
SeqsUpTo(S, n) ==
    IF n = 0 THEN {<< >>}
    ELSE LET shorter == SeqsUpTo(S, n - 1)
         IN  shorter \cup {Append(s, x) : s \in {t \in shorter : Len(t) = n - 1}, x \in S}

(***************************************************************************)
(* __init__ and set_time_range.  A configured time is an int, a str, a     *)
(* float, a datetime or None; of an int or str the form says what          *)
(* int(str(time)) and strptime make of it.                                 *)
(***************************************************************************)
MaxTimes == 2       \* a configured list or tuple holds at most MaxTimes times

\* "epoch": 10**8 < int(str(time)) < 10**13; "timestamp": digits that, padded
\* to 14, strptime parses; "short": digits that, padded, name no date (2020);
\* "text": no number, int() raises ValueError; str(float) is no int either
RawTimes ==
    {[type |-> "int", form |-> f, tick |-> t] : f \in {"epoch", "timestamp"}, t \in {1, 2}}
    \cup {[type |-> "str", form |-> "timestamp", tick |-> t] : t \in {1, 2}}
    \cup {[type |-> "datetime", form |-> "", tick |-> t] : t \in {1, 2}}
    \cup {[type |-> "float", form |-> "epoch", tick |-> 1],
          [type |-> "str", form |-> "text", tick |-> 0],
          [type |-> "int", form |-> "short", tick |-> 0],
          [type |-> "NoneType", form |-> "", tick |-> 0]}

\* the setting: one time, or a list or tuple of times
Settings ==
    {[seq |-> FALSE, times |-> <<t>>] : t \in RawTimes}
    \cup {[seq |-> TRUE, times |-> ts] : ts \in SeqsUpTo(RawTimes, MaxTimes)}

\* parse_time: the epoch tick, None after a caught ValueError or TypeError, or
\* the AttributeError of None.timestamp(), which is not caught
parse_time(time) ==
    IF time.type \in {"int", "float", "str"}
    THEN IF time.type = "float" \/ time.form = "text" THEN [kind |-> "None", tick |-> 0]
         ELSE IF time.form = "epoch" THEN [kind |-> "value", tick |-> time.tick]
         ELSE IF time.form = "timestamp" THEN [kind |-> "value", tick |-> time.tick]
         ELSE [kind |-> "None", tick |-> 0]
    ELSE IF time.type = "datetime" THEN [kind |-> "value", tick |-> time.tick]
    ELSE [kind |-> "AttributeError", tick |-> 0]

\* set_time_range: the exception that leaves it, or "" and the list installed
set_time_range(setting) ==
    LET times == IF setting.seq THEN setting.times
                 ELSE <<setting.times[1], setting.times[1]>>
        parsed_times == [k \in 1..Len(times) |-> parse_time(times[k])]
    IN  IF \E k \in 1..Len(times) : parsed_times[k].kind = "AttributeError"
        THEN [raised |-> "AttributeError", time_range |-> << >>]
        ELSE IF \E k \in 1..Len(times) : parsed_times[k].kind = "None"
        THEN [raised |-> "NotConfigured", time_range |-> << >>]
        ELSE [raised |-> "", time_range |-> [k \in 1..Len(times) |-> parsed_times[k].tick]]

\* "if not time_range" in __init__: None or an empty list or tuple
falsy(setting) ==
    \/ setting.seq /\ setting.times = << >>
    \/ ~setting.seq /\ setting.times[1].type = "NoneType"

\* the setting that is the pair of epoch numbers tr
EpochPair(tr) ==
    [seq |-> TRUE, times |-> <<[type |-> "int", form |-> "epoch", tick |-> tr[1]],
                               [type |-> "int", form |-> "epoch", tick |-> tr[2]]>>]

\* set_time_range keeps the parsed values in the order given
TimeRanges == {<<s, e>> : s \in {1, 2}, e \in {1, 2}}

NoCall ==
    [op |-> "none", request |-> << >>, response |-> << >>,
     returned_request |-> << >>, returned_response |-> << >>, enqueued |-> << >>]

\* the logical requests: <<1, 0>> the start request and the index query made
\* of it, <<1, k>> the k-th snapshot request of its listing
Chains == {1} \X (0..MaxRows)

MedIdle ==
    /\ scheduler = {}
    /\ downloading = {}
    /\ last = NoCall
    /\ attempts = [c \in Chains |-> 0]

SelInit ==
    /\ time_range \in TimeRanges
    /\ settings = EpochPair(time_range)
    /\ \E rows \in SeqsUpTo(Rows, MaxEntries) :
           snapshots = [k \in 1..Len(rows) |-> build_dict(rows[k])]
    /\ scan = ScanInit
    /\ MedIdle

ScanStep ==
    /\ ~ScanDone(scan, snapshots)
    /\ scan' = LoopBody(scan, snapshots, time_range)
    /\ UNCHANGED <<settings, time_range, snapshots>>
    /\ UNCHANGED medvars

SelNext == ScanStep

SpecSel == SelInit /\ [][SelNext]_vars

(***************************************************************************)
(* Construction on its own: every setting, then __init__.                  *)
(***************************************************************************)
CfgInit ==
    /\ settings \in Settings
    /\ time_range = << >>
    /\ snapshots = << >>
    /\ scan = ScanInit
    /\ MedIdle

\* __init__: last.op records how it ended
Construct ==
    LET result == set_time_range(settings)
    IN  /\ last.op = "none"
        /\ IF falsy(settings)
           THEN /\ last' = [NoCall EXCEPT !.op = "NotConfigured"]
                /\ UNCHANGED time_range
           ELSE /\ last' = [NoCall EXCEPT !.op = IF result.raised = "" THEN "__init__"
                                                ELSE result.raised]
                /\ time_range' = result.time_range
        /\ UNCHANGED <<settings, snapshots, scan, scheduler, downloading, attempts>>

CfgNext == Construct

SpecCfg == CfgInit /\ [][CfgNext]_vars

(***************************************************************************)
(* The mediator inside the engine.  The engine passes each scheduled       *)
(* request through process_request, downloads what that lets through and   *)
(* passes each response through process_response; a request a handler      *)
(* returns goes back to the scheduler.                                     *)
(***************************************************************************)
Statuses == {200, 403, 404, 503}

\* rows an index response may hold: a capture at every instant in either
\* digest, a redirect, a timestamp that does not parse, a truncated row
MedRows ==
    {<<ts, o, "200", d>> : ts \in Timestamps \ {[wellformed |-> FALSE, tick |-> 0]},
                           o \in OriginalUrls, d \in Digests}
    \cup {<<[wellformed |-> TRUE, tick |-> 1], o, "301", "A">> : o \in OriginalUrls}
    \cup {<<[wellformed |-> FALSE, tick |-> 0], o, "200", "A">> : o \in OriginalUrls}
    \cup {<<[wellformed |-> TRUE, tick |-> 1], o>> : o \in OriginalUrls}

CdxBodies ==
    {[json |-> "invalid", data |-> << >>], [json |-> "scalar", data |-> << >>],
     [json |-> "array", data |-> << >>]}
    \cup {[json |-> "array", data |-> <<keys>> \o rows] : rows \in SeqsUpTo(MedRows, MaxRows)}

\* the engine starts with one request scheduled: the spider's start request
\* (start_urls) or the request for the archive's robots.txt
StartRequests ==
    {NewRequest(LiveUrl(u), <<1, 0>>) : u \in OriginalUrls} \cup {NewRequest(robots_txt, <<1, 0>>)}

Init ==
    /\ time_range \in TimeRanges
    /\ settings = EpochPair(time_range)
    /\ snapshots = << >>
    /\ scan = ScanInit
    /\ \E request \in StartRequests : scheduler = {request}
    /\ downloading = {}
    /\ last = NoCall
    /\ attempts = [c \in Chains |-> 0]

ProcessRequest(request) ==
    LET returned == process_request(request)
    IN  /\ request \in scheduler
        /\ IF returned = << >>
           THEN /\ scheduler' = scheduler \ {request}
                /\ downloading' = downloading \cup {request}
           ELSE /\ scheduler' = (scheduler \ {request}) \cup {returned[1]}
                /\ UNCHANGED downloading
        /\ last' = [NoCall EXCEPT !.op = "process_request", !.request = <<request>>,
                                  !.returned_request = returned]
        /\ UNCHANGED attempts
        /\ UNCHANGED selvars
        /\ UNCHANGED settings

\* DeliverResponse as it would be if the requests built from one index response
\* shared one meta dict: a retry's increment shows in every request in flight
DeliverResponse_SharedMeta(request, status, body) ==
    LET response == [url |-> request.url, status |-> status, body |-> body]
        returned == process_response(request, response)
        shared(S) == IF returned.request = << >> THEN S
                     ELSE {[r EXCEPT !.meta.retry_times = @ + 1] : r \in S}
    IN  /\ request \in downloading
        /\ downloading' = shared(downloading \ {request})
        /\ scheduler' = shared(scheduler)
                            \cup {returned.request[k] : k \in 1..Len(returned.request)}
                            \cup {returned.enqueued[k] : k \in 1..Len(returned.enqueued)}
        /\ last' = [op |-> "process_response", request |-> <<request>>,
                    response |-> <<response>>, returned_request |-> returned.request,
                    returned_response |-> returned.response, enqueued |-> returned.enqueued]
        /\ attempts' = [attempts EXCEPT ![request.chain] = @ + 1]
        /\ UNCHANGED selvars
        /\ UNCHANGED settings

DeliverResponse(request, status, body) ==
    LET response == [url |-> request.url, status |-> status, body |-> body]
        returned == process_response(request, response)
    IN  /\ request \in downloading
        /\ downloading' = downloading \ {request}
        /\ scheduler' = scheduler \cup {returned.request[k] : k \in 1..Len(returned.request)}
                                  \cup {returned.enqueued[k] : k \in 1..Len(returned.enqueued)}
        /\ last' = [op |-> "process_response", request |-> <<request>>,
                    response |-> <<response>>, returned_request |-> returned.request,
                    returned_response |-> returned.response, enqueued |-> returned.enqueued]
        /\ attempts' = [attempts EXCEPT ![request.chain] = @ + 1]
        /\ UNCHANGED selvars
        /\ UNCHANGED settings

Next ==
    \/ \E request \in scheduler : ProcessRequest(request)
    \/ \E request \in downloading, status \in Statuses :
           \E body \in (IF request.meta.wayback_machine_cdx_request
                        THEN CdxBodies ELSE {PageBody}) :
               DeliverResponse(request, status, body)

Spec == Init /\ [][Next]_vars

(***************************************************************************)
(* The mediator under a fair engine: a request the scheduler holds is      *)
(* eventually passed through process_request, and the downloader           *)
(* eventually delivers a response for a request it was handed.             *)
(***************************************************************************)
EngineStep == \E request \in scheduler : ProcessRequest(request)

DownloaderStep ==
    \E request \in downloading, status \in Statuses :
        \E body \in (IF request.meta.wayback_machine_cdx_request
                     THEN CdxBodies ELSE {PageBody}) :
            DeliverResponse(request, status, body)

FairSpec == Spec /\ WF_vars(EngineStep) /\ WF_vars(DownloaderStep)

(***************************************************************************)
(* Vocabulary of the selector's claims.  An entry is eligible when the     *)
(* loop does not skip it at its head; the output is read once the scan has *)
(* ended.                                                                  *)
(***************************************************************************)
Entries == 1..Len(snapshots)

EligibleAt(i) == ~Skipped(snapshots[i])

InstantAt(i) == timestamp(snapshots[i].datetime)

Out == scan.filtered_snapshots

Finished == ScanDone(scan, snapshots)

WindowStart == time_range[1]

WindowEnd == time_range[2]

SortedInput ==
    \A i, j \in Entries :
        (i < j /\ snapshots[i].datetime.parsed /\ snapshots[j].datetime.parsed)
            => InstantAt(i) <= InstantAt(j)

\* some eligible entry at or before the window start, a later one after it
CrossingCase ==
    \E i, j \in Entries :
        /\ i < j /\ EligibleAt(i) /\ EligibleAt(j)
        /\ InstantAt(i) <= WindowStart /\ InstantAt(j) > WindowStart

\* the first eligible entry after the window start lies beyond the window end
CrossingBeyondEnd ==
    \E j \in Entries :
        /\ EligibleAt(j) /\ InstantAt(j) > WindowStart /\ InstantAt(j) > WindowEnd
        /\ \A i \in 1..(j - 1) : EligibleAt(i) => InstantAt(i) <= WindowStart

\* C4 (as claimed): when eligible entries exist and all of them lie strictly
\* before the window start, the selector emits exactly one snapshot, the latest
\* of them.
C4_AnchorEmittedWithNothingAfter ==
    (/\ Finished
     /\ \E i \in Entries : EligibleAt(i)
     /\ \A i \in Entries : EligibleAt(i) => InstantAt(i) < WindowStart)
    => /\ Len(Out) = 1
       /\ EligibleAt(Out[1])
       /\ \A i \in Entries : EligibleAt(i) => InstantAt(i) <= InstantAt(Out[1])

\* C5 (as claimed): on sorted input with an eligible entry at or before the
\* window start and a later eligible entry after it, the first emitted snapshot
\* has the greatest instant <= window.start among the eligible entries, is
\* emitted exactly once and ahead of every other emitted entry, and is the whole
\* result when the crossing entry lies beyond window.end.
C5_AnchorAloneBeyondEnd ==
    (Finished /\ SortedInput /\ WindowStart <= WindowEnd /\ CrossingCase)
    => /\ Len(Out) >= 1
       /\ EligibleAt(Out[1])
       /\ InstantAt(Out[1]) <= WindowStart
       /\ \A i \in Entries :
              (EligibleAt(i) /\ InstantAt(i) <= WindowStart) => InstantAt(i) <= InstantAt(Out[1])
       /\ \A k \in 2..Len(Out) : Out[k] > Out[1]
       /\ CrossingBeyondEnd => Len(Out) = 1

\* C5 (amended): as claimed, except that beyond window.end the result holds no
\* entry after window.start, and is the anchor alone unless several eligible
\* entries sit exactly at window.start.
C5_AnchorAtCrossing ==
    (Finished /\ SortedInput /\ WindowStart <= WindowEnd /\ CrossingCase)
    => /\ Len(Out) >= 1
       /\ EligibleAt(Out[1])
       /\ InstantAt(Out[1]) <= WindowStart
       /\ \A i \in Entries :
              (EligibleAt(i) /\ InstantAt(i) <= WindowStart) => InstantAt(i) <= InstantAt(Out[1])
       /\ \A k \in 2..Len(Out) : Out[k] > Out[1]
       /\ CrossingBeyondEnd =>
              /\ \A k \in 1..Len(Out) : InstantAt(Out[k]) <= WindowStart
              /\ Cardinality({i \in Entries : EligibleAt(i) /\ InstantAt(i) = WindowStart}) <= 1
                     => Len(Out) = 1

\* C5 witness: two eligible entries before the window, then one beyond its end:
\* the later of the two is the whole result
C5_Witness ==
    /\ Finished /\ SortedInput /\ WindowStart <= WindowEnd /\ CrossingCase
    /\ CrossingBeyondEnd
    /\ Out = <<2>>
    /\ EligibleAt(1)
    /\ InstantAt(1) < InstantAt(2)
    /\ InstantAt(2) < WindowStart

\* C6: for every input, sorted or not, and every window with start <= end,
\* every emitted snapshot but the first lies in [start, end], and the first lies
\* in it or before its start; none lies after its end.
C6_WindowContainment ==
    (WindowStart <= WindowEnd)
    => /\ \A k \in 2..Len(Out) :
              WindowStart <= InstantAt(Out[k]) /\ InstantAt(Out[k]) <= WindowEnd
       /\ \A k \in 1..Len(Out) : InstantAt(Out[k]) <= WindowEnd

\* C6 witness: an unsorted input whose first emitted snapshot predates the
\* window and is followed by two in-window ones
C6_Witness ==
    /\ Finished /\ WindowStart <= WindowEnd /\ ~SortedInput
    /\ Len(Out) = 3
    /\ InstantAt(Out[1]) < WindowStart

\* C7: no two consecutive emitted snapshots have the same digest, the anchor
\* and the first in-window snapshot included.
C7_DigestCollapse ==
    \A k \in 1..(Len(Out) - 1) :
        snapshots[Out[k]].digest # snapshots[Out[k + 1]].digest

\* C7 witness: the anchor was emitted, the crossing entry carried the anchor's
\* digest and was skipped, and a later entry with another digest was emitted
C7_Witness ==
    /\ Finished
    /\ Len(snapshots) = 3
    /\ Out = <<1, 3>>
    /\ InstantAt(1) < WindowStart
    /\ EligibleAt(2)
    /\ InstantAt(2) > WindowStart /\ InstantAt(2) <= WindowEnd
    /\ snapshots[2].digest = snapshots[1].digest

\* C8 (as claimed): on sorted input the emitted instants are strictly
\* increasing.
C8_StrictlyIncreasing ==
    SortedInput
    => \A k \in 1..(Len(Out) - 1) : InstantAt(Out[k]) < InstantAt(Out[k + 1])

\* C8 (amended): on sorted input the emitted snapshots keep the input's order
\* and their instants never decrease; two neighbours share an instant only when
\* the input holds that instant in two rows.
C8_NonDecreasing ==
    SortedInput
    => \A k \in 1..(Len(Out) - 1) :
           /\ Out[k] < Out[k + 1]
           /\ InstantAt(Out[k]) <= InstantAt(Out[k + 1])

\* C8 witness: a sorted input with two rows at one instant, both emitted
C8_Witness ==
    /\ Finished /\ SortedInput
    /\ Len(Out) >= 2
    /\ \E k \in 1..(Len(Out) - 1) : InstantAt(Out[k]) = InstantAt(Out[k + 1])

(***************************************************************************)
(* Vocabulary of the mediator's claims, read off the latest handler call.  *)
(***************************************************************************)
IsIndexQuery(request) == request.meta.wayback_machine_cdx_request

IsSnapshot(request) == request.meta.wayback_machine_url # NoUrl

Tagged(request) == IsIndexQuery(request) \/ IsSnapshot(request)

OriginalOf(request) == request.meta.wayback_machine_original_request[1]

AfterRequest == last.op = "process_request"

AfterResponse == last.op = "process_response"

Surfaced == AfterResponse /\ last.returned_response # << >>

\* the latest response was a server error for a request that is no index query
ServerErrorHandled ==
    /\ AfterResponse
    /\ ~IsIndexQuery(last.request[1])
    /\ last.response[1].status >= 500

\* the rows of the latest index response, as dicts, when all of them are full
LastListing ==
    LET rows == Tail(last.response[1].body.data)
    IN  [k \in 1..Len(rows) |-> build_dict(rows[k])]

\* the latest index response is a well-formed listing without a usable entry:
\* an empty array, the header row alone, or rows of which none is selected
NothingArchived ==
    /\ AfterResponse
    /\ IsIndexQuery(last.request[1])
    /\ last.response[1].body.json = "array"
    /\ \/ Len(last.response[1].body.data) < 2
       \/ /\ \A k \in 2..Len(last.response[1].body.data) :
                 ~build_dict_raises(last.response[1].body.data[k])
          /\ filter_snapshots(LastListing, time_range) = << >>

\* C1 (as claimed): every response process_response surfaces for an index query
\* or a snapshot request carries the original request's URL, never an
\* archive-service URL, whatever its status and however many retries preceded.
C1_IdentityRestored ==
    (Surfaced /\ Tagged(last.request[1]))
    => /\ last.returned_response[1].url = OriginalOf(last.request[1]).url
       /\ ~IsArchiveUrl(last.returned_response[1].url)

\* C2 (as claimed): a request that is no index query and draws a server error on
\* every delivery gets at most 3 attempts; the third server error is surfaced as
\* it is and no copy is issued.
C2_ThreeAttempts ==
    /\ \A c \in Chains : attempts[c] <= 3
    /\ (ServerErrorHandled /\ attempts[last.request[1].chain] = 3)
       => /\ last.returned_request = << >>
          /\ last.returned_response = last.response

\* C2 (amended): such a request is re-issued at most 3 times, 4 attempts in
\* all: each of the first three server errors is answered by a copy whose retry
\* counter is the number of attempts so far, the fourth is surfaced as it is and
\* no copy is issued.
C2_ThreeRetries ==
    /\ \A c \in Chains : attempts[c] <= 4
    /\ ServerErrorHandled
       => IF attempts[last.request[1].chain] <= 3
          THEN /\ last.returned_response = << >>
               /\ Len(last.returned_request) = 1
               /\ last.returned_request[1].meta.retry_times = attempts[last.request[1].chain]
               /\ last.returned_request[1] \in scheduler
          ELSE /\ last.returned_request = << >>
               /\ last.returned_response = last.response
               /\ last.request[1].chain \notin {r.chain : r \in scheduler \cup downloading}

\* C2 witness: a snapshot request's fourth server error, surfaced
C2_Witness ==
    /\ ServerErrorHandled
    /\ IsSnapshot(last.request[1])
    /\ attempts[last.request[1].chain] = 4
    /\ last.returned_response # << >>

\* C3: process_request lets every request tagged as index query or snapshot
\* through unchanged, retried copies included, so that no index query is ever
\* made of an index query or of a snapshot request: the original of every tagged
\* request is an untagged request for a live URL.
C3_LoopAvoidance ==
    /\ (AfterRequest /\ Tagged(last.request[1]))
       => /\ last.returned_request = << >>
          /\ last.request[1] \in downloading
    /\ \A r \in scheduler \cup downloading :
           Tagged(r) => /\ ~Tagged(OriginalOf(r))
                        /\ ~IsArchiveUrl(OriginalOf(r).url)
                        /\ ~(IsIndexQuery(r) /\ IsSnapshot(r))

\* C3 witness: the copy of a snapshot request made for its third retry has
\* passed process_request
C3_Witness ==
    /\ AfterRequest
    /\ IsSnapshot(last.request[1])
    /\ last.request[1].meta.retry_times = 3
    /\ last.returned_request = << >>

\* C9: an index response that is an empty table, the header row alone, or a
\* listing of which nothing is selected makes process_response surface one 404
\* response for the original URL, hand nothing to the scheduler and raise
\* nothing (the raw index response is not what comes back).
C9_NothingArchived ==
    NothingArchived
    => /\ last.returned_response = <<Response(OriginalOf(last.request[1]).url, 404)>>
       /\ last.returned_request = << >>
       /\ last.enqueued = << >>
       /\ scheduler = {}
       /\ last.returned_response # last.response

\* C9 witness: a listing with rows, none selected, on an index response that
\* itself came with an error status
C9_Witness ==
    /\ NothingArchived
    /\ Len(last.response[1].body.data) = 3
    /\ last.response[1].status = 503
    /\ last.returned_response # << >>

\* C10: the response surfaced for a successful snapshot fetch carries the
\* original URL and, as metadata, the instant parsed from the timestamp of the
\* snapshot its request was made of, after any number of retries; at fan-out the
\* k-th request carries the k-th selected snapshot's instant and timestamp.
C10_ArchivedInstant ==
    /\ (Surfaced /\ IsSnapshot(last.request[1]) /\ last.response[1].status < 400)
       => /\ last.returned_response[1].url = OriginalOf(last.request[1]).url
          /\ ResponseMeta(last.request[1]).wayback_machine_time.parsed
          /\ ResponseMeta(last.request[1]).wayback_machine_time
                 = strptime(last.request[1].url.ts)
    /\ (AfterResponse /\ last.enqueued # << >>)
       => LET selected == filter_snapshots(LastListing, time_range)
          IN  /\ Len(last.enqueued) = Len(selected)
              /\ \A k \in 1..Len(selected) :
                     /\ last.enqueued[k].meta.wayback_machine_time = selected[k].datetime
                     /\ last.enqueued[k].url.ts = selected[k].timestamp

\* C10 witness: the anchor, captured before the window, fetched successfully
\* on the copy made for its second retry
C10_Witness ==
    /\ Surfaced
    /\ IsSnapshot(last.request[1])
    /\ last.response[1].status = 200
    /\ last.request[1].meta.retry_times = 2
    /\ timestamp(ResponseMeta(last.request[1]).wayback_machine_time) < time_range[1]

\* the latest response was a client error for a request that is no index query
ClientErrorHandled ==
    /\ AfterResponse
    /\ ~IsIndexQuery(last.request[1])
    /\ last.response[1].status >= 400
    /\ last.response[1].status < 500

\* C11: for a request that is no index query, a response with
\* 400 <= status < 500 (404 included) is surfaced at once and unchanged; no copy
\* of the request is issued, nothing is handed to the scheduler and no request
\* of that chain, with whatever retry counter, remains with the engine.
C11_ClientErrorsTerminal ==
    ClientErrorHandled
    => /\ last.returned_response = last.response
       /\ last.returned_request = << >>
       /\ last.enqueued = << >>
       /\ \A r \in scheduler \cup downloading : r.chain # last.request[1].chain

\* C11 witness: a 403 for the copy of a snapshot request made for its second
\* retry, surfaced
C11_Witness ==
    /\ ClientErrorHandled
    /\ IsSnapshot(last.request[1])
    /\ last.response[1].status = 403
    /\ last.request[1].meta.retry_times = 2
    /\ last.returned_response # << >>

\* a status-code field that begins with 3
IsRedirect(snapshot) == snapshot.statuscode \in {"301"}

WithoutRedirects(snaps) == SelectSeq(snaps, LAMBDA s : ~IsRedirect(s))

\* the entries the scan has passed so far
Passed == SubSeq(snapshots, 1, scan.pos - 1)

\* the locals of a scan, its positions in snaps replaced by the dicts they name
Resolved(st, snaps) ==
    [filtered_snapshots |-> [k \in 1..Len(st.filtered_snapshots) |->
                                snaps[st.filtered_snapshots[k]]],
     initial_snapshot   |-> IF st.initial_snapshot = 0 THEN << >>
                            ELSE <<snaps[st.initial_snapshot]>>,
     last_digest        |-> st.last_digest,
     broke              |-> st.broke]

\* C12: an entry whose status code begins with 3 is never emitted, never the
\* pending anchor, never changes last_digest and never stops the scan: at every
\* point of the scan, for every input and window, the output so far, the pending
\* anchor, last_digest and whether the scan has stopped are what they are after
\* scanning the entries passed so far with all such entries removed; so the
\* result equals the result on the input without them.
C12_RedirectExclusion ==
    /\ \A k \in 1..Len(Out) : ~IsRedirect(snapshots[Out[k]])
    /\ scan.initial_snapshot # 0 => ~IsRedirect(snapshots[scan.initial_snapshot])
    /\ Resolved(scan, snapshots)
           = Resolved(RunScan(ScanInit, WithoutRedirects(Passed), time_range),
                      WithoutRedirects(Passed))
    /\ Finished
       => [k \in 1..Len(Out) |-> snapshots[Out[k]]]
              = filter_snapshots(WithoutRedirects(snapshots), time_range)

\* C12 witness: a redirect inside the window, between an emitted entry of
\* another digest and an emitted entry of the redirect's own digest
C12_Witness ==
    /\ Finished
    /\ Len(snapshots) = 3
    /\ IsRedirect(snapshots[2])
    /\ WindowStart <= InstantAt(2) /\ InstantAt(2) <= WindowEnd
    /\ Out = <<1, 3>>
    /\ snapshots[1].digest # snapshots[2].digest
    /\ snapshots[3].digest = snapshots[2].digest

\* the number of characters of a status-code field
FieldLength(sc) == IF sc = "-" THEN 1 ELSE IF sc = "20" THEN 2 ELSE 3

\* the discard rule as stated: no parsable timestamp, a status-code field that
\* is not exactly 3 characters, or a status code that begins with 3
DiscardedAsStated(snapshot) ==
    \/ ~snapshot.datetime.parsed
    \/ FieldLength(snapshot.statuscode) # 3
    \/ IsRedirect(snapshot)

\* the discard rule as amended: no parsable timestamp, a status-code field that
\* is not made of digits, or a status code of 300 or more
DiscardedAsCoded(snapshot) ==
    \/ ~snapshot.datetime.parsed
    \/ snapshot.statuscode = "-"
    \/ snapshot.statuscode \in {"301", "404"}

InWindow(i) == WindowStart <= InstantAt(i) /\ InstantAt(i) <= WindowEnd

\* the entry the scan has just passed was handled under the discard rule D: a
\* discarded entry leaves every local as it was; any other entry becomes the
\* pending anchor when nothing is emitted yet and it lies at or before the
\* window start, and in the window it is emitted exactly when the snapshot
\* emitted before it, if any, has another digest
EligibilityIs(D(_)) ==
    scan.pos > 1 =>
        LET i      == scan.pos - 1
            before == RunScan(ScanInit, SubSeq(snapshots, 1, i - 1), time_range)
            others == SelectSeq(Out, LAMBDA k : k # i)
        IN  IF D(snapshots[i])
            THEN Resolved(scan, snapshots) = Resolved(before, snapshots)
            ELSE /\ (before.filtered_snapshots = << >> /\ InstantAt(i) <= WindowStart)
                        => scan.initial_snapshot = i
                 /\ InWindow(i)
                        => /\ Len(Out) >= 1
                           /\ Out[Len(Out)] = i
                                  <=> \/ others = << >>
                                      \/ snapshots[others[Len(others)]].digest
                                             # snapshots[i].digest

\* C13 (as claimed): the selector discards an entry only if its timestamp fails
\* to parse, its status-code field is not exactly 3 characters, or its status
\* code begins with 3; every other entry, a 4xx or 5xx capture included, stays
\* eligible: it can become the anchor and, in the window with a digest other
\* than last_digest, is emitted.
C13_EligibilityAsStated == EligibilityIs(DiscardedAsStated)

\* C13 (amended): the selector discards an entry exactly if its timestamp fails
\* to parse, its status-code field is not made of digits, or its status code is
\* 300 or more (redirects and 4xx/5xx captures alike); every other entry, one
\* with a status field of fewer than 3 digits included, stays eligible.
C13_EligibilityAsCoded == EligibilityIs(DiscardedAsCoded)

\* C13 witness: an error capture in the window, its digest unlike that of the
\* snapshot emitted before it, was passed and left out
C13_Witness ==
    /\ Finished
    /\ Len(snapshots) = 2
    /\ snapshots[1].statuscode = "200"
    /\ snapshots[2].statuscode = "404"
    /\ InWindow(1) /\ InWindow(2)
    /\ snapshots[1].digest # snapshots[2].digest
    /\ Out = <<1>>

\* the eligible entries of the input, as positions in input order
RECURSIVE EligibleFrom(_)
EligibleFrom(i) ==
    IF i > Len(snapshots) THEN << >>
    ELSE (IF EligibleAt(i) THEN <<i>> ELSE << >>) \o EligibleFrom(i + 1)

\* the state at window start: the latest eligible entry before window.start,
\* unless an eligible entry sits at window.start itself (and so in the window)
StateAtStart ==
    LET earlier == SelectSeq(EligibleFrom(1), LAMBDA i : InstantAt(i) < WindowStart)
    IN  IF earlier = << >> \/ \E i \in Entries : EligibleAt(i) /\ InstantAt(i) = WindowStart
        THEN << >>
        ELSE <<earlier[Len(earlier)]>>

\* the points of a sequence of entries at which the digest changes
RECURSIVE ChangePoints(_, _)
ChangePoints(seq, digest) ==
    IF seq = << >> THEN << >>
    ELSE IF snapshots[Head(seq)].digest = digest THEN ChangePoints(Tail(seq), digest)
    ELSE <<Head(seq)>> \o ChangePoints(Tail(seq), snapshots[Head(seq)].digest)

\* the in-window digest-change points preceded by the state at window start
ContentHistory ==
    ChangePoints(StateAtStart \o SelectSeq(EligibleFrom(1), InWindow), NoneDigest)

\* the first half of C14: on sorted input and a window with start <= end, once
\* the scan has passed an eligible entry that lies in the window, the snapshot
\* emitted last has that entry's digest; and the scan passes every such entry
C14_NoChangeMissed ==
    (SortedInput /\ WindowStart <= WindowEnd)
    => /\ (scan.pos > 1 /\ EligibleAt(scan.pos - 1) /\ InWindow(scan.pos - 1))
              => /\ Len(Out) >= 1
                 /\ snapshots[Out[Len(Out)]].digest = snapshots[scan.pos - 1].digest
       /\ Finished => \A i \in Entries : (EligibleAt(i) /\ InWindow(i)) => i < scan.pos

\* C14 (as claimed): on sorted input and a window with start <= end, when the
\* scan passes an eligible in-window entry the snapshot emitted last has its
\* digest; equivalently the output is the input's in-window digest-change
\* points preceded by the state at window start.
C14_ContentHistory ==
    /\ C14_NoChangeMissed
    /\ (Finished /\ SortedInput /\ WindowStart <= WindowEnd) => Out = ContentHistory

\* where the output is not the content history: eligible entries before the
\* window start and none at or after it
C14_MissingOnlyTheLoneAnchor ==
    (Finished /\ SortedInput /\ WindowStart <= WindowEnd /\ Out # ContentHistory)
    => /\ Out = << >>
       /\ Len(ContentHistory) = 1
       /\ \A i \in Entries : EligibleAt(i) => InstantAt(i) < WindowStart

\* the latest response answered an index query
IndexResponseHandled == AfterResponse /\ IsIndexQuery(last.request[1])

\* the latest index response is a listing of full rows of which the selector
\* returns at least one
SomethingArchived ==
    /\ IndexResponseHandled
    /\ last.response[1].body.json = "array"
    /\ Len(last.response[1].body.data) >= 2
    /\ \A k \in 2..Len(last.response[1].body.data) :
           ~build_dict_raises(last.response[1].body.data[k])
    /\ filter_snapshots(LastListing, time_range) # << >>

\* C15: when the selector returns N >= 1 snapshots, handling the index response
\* hands exactly N snapshot requests to the scheduler, in the selector's order,
\* the k-th tagged as snapshot with the original request, the k-th snapshot's
\* archived URL and instant and duplicate filtering off, and surfaces one
\* response with status 200 for the original URL; no snapshot request is with
\* the engine before the index response of its original was handled; and an
\* index response is never answered by a retry, whatever its status.
C15_FanOut ==
    /\ SomethingArchived
       => LET selected == filter_snapshots(LastListing, time_range)
              original == OriginalOf(last.request[1])
          IN  /\ Len(last.enqueued) = Len(selected)
              /\ \A k \in 1..Len(selected) :
                     LET r == last.enqueued[k]
                     IN  /\ r.url = [site |-> "web.archive.org/web",
                                     path |-> selected[k].original,
                                     ts   |-> selected[k].timestamp]
                         /\ IsSnapshot(r) /\ ~IsIndexQuery(r)
                         /\ r.meta.wayback_machine_url = r.url
                         /\ r.meta.wayback_machine_original_request = <<original>>
                         /\ r.meta.wayback_machine_time = selected[k].datetime
                         /\ r.meta.retry_times = 0
                         /\ r.dont_filter
                         /\ r \in scheduler
              /\ Cardinality(scheduler) = Len(selected)
              /\ last.returned_response = <<Response(original.url, 200)>>
              /\ last.returned_request = << >>
    /\ \A r \in scheduler \cup downloading :
           IsSnapshot(r) => attempts[<<r.chain[1], 0>>] = 1
    /\ IndexResponseHandled
       => /\ last.returned_request = << >>
          /\ \A r \in scheduler \cup downloading : ~IsIndexQuery(r)
          /\ attempts[last.request[1].chain] = 1

\* C15 witness: an index response with status 503 whose listing yields two
\* snapshots: both are scheduled and the 200 is surfaced
C15_Witness ==
    /\ SomethingArchived
    /\ last.response[1].status = 503
    /\ Len(last.enqueued) = 2
    /\ last.enqueued[1] # last.enqueued[2]
    /\ last.returned_response[1].status = 200

\* the body of the latest index response does not conform: it is no JSON, or
\* JSON that is no array, or an array with a row shorter than the header
ParseFailure ==
    /\ IndexResponseHandled
    /\ \/ last.response[1].body.json \in {"invalid", "scalar"}
       \/ /\ last.response[1].body.json = "array"
          /\ \E k \in 2..Len(last.response[1].body.data) :
                 build_dict_raises(last.response[1].body.data[k])

NotFoundSurfaced ==
    /\ last.returned_response = <<Response(OriginalOf(last.request[1]).url, 404)>>
    /\ last.returned_request = << >>
    /\ last.enqueued = << >>
    /\ last.returned_response # last.response

\* C16 (as claimed): whatever way the body of an index response fails to
\* conform, process_response surfaces a 404 response for the original URL,
\* hands no request to the scheduler and does not surface the raw index
\* response.
C16_ParseFailureIsNotFound == ParseFailure => NotFoundSurfaced

\* the part of C16 that holds: a body that is no JSON at all gives the 404
C16_InvalidJsonIsNotFound ==
    (IndexResponseHandled /\ last.response[1].body.json = "invalid") => NotFoundSurfaced

\* a request of the logical request c is with the engine
InFlight(c) == \E r \in scheduler \cup downloading : r.chain = c

Quiescent == scheduler = {} /\ downloading = {}

\* C17: with an engine that eventually delivers a response for every request it
\* is handed, every resolution ends: at most one index query is ever with the
\* engine and none once one was answered, every logical request draws at most 4
\* deliveries even if each is a 5xx, every logical request in flight eventually
\* has a response surfaced, and eventually no request is in flight, for good.
C17_ResolutionTerminates ==
    /\ [](/\ Cardinality({r \in scheduler \cup downloading : IsIndexQuery(r)}) <= 1
          /\ \A r \in scheduler \cup downloading : IsIndexQuery(r) => attempts[r.chain] = 0
          /\ \A c \in Chains : attempts[c] <= 4)
    /\ \A c \in Chains : InFlight(c) ~> (Surfaced /\ last.request[1].chain = c)
    /\ <>[]Quiescent

\* C17 witness: nothing is in flight after an index query fanned out into two
\* snapshot requests and each of them drew four responses
C17_Witness ==
    /\ Quiescent
    /\ attempts[<<1, 0>>] = 1
    /\ attempts[<<1, 1>>] = 4
    /\ attempts[<<1, 2>>] = 4

\* the requests with the engine
WithEngine == scheduler \cup downloading

\* a step that handles a response leaves every request of another logical
\* request where it is and as it is
SiblingsUntouched ==
    \A r \in WithEngine :
        (last'.op = "process_response" /\ last'.request # << >>
            /\ r.chain # last'.request[1].chain)
        => /\ r \in scheduler => r \in scheduler'
           /\ r \in downloading => r \in downloading'

\* C18: after a fan-out, under every interleaving, handling a response for one
\* snapshot request (a 5xx and its retry included) leaves every sibling request
\* as it is, retry counter and context, and the shared original request as it
\* was submitted; a snapshot request's counter counts its own deliveries only,
\* so each sibling is re-issued on its own first three 5xx responses and has its
\* own fourth surfaced, whatever the others did.
C18_SiblingIndependence ==
    /\ [][SiblingsUntouched]_vars
    /\ [](\A r \in WithEngine :
              IsSnapshot(r) => /\ r.meta.retry_times = attempts[r.chain]
                               /\ OriginalOf(r) \in StartRequests)
    /\ []((ServerErrorHandled /\ IsSnapshot(last.request[1]))
              => /\ last.returned_request # << >> <=> attempts[last.request[1].chain] <= 3
                 /\ last.returned_response # << >> <=> attempts[last.request[1].chain] = 4)

\* C18 witness: one snapshot request has used up its budget and had its fourth
\* 503 surfaced while its sibling, not yet answered once, is still in flight
C18_Witness ==
    /\ ServerErrorHandled
    /\ last.request[1].chain = <<1, 1>>
    /\ attempts[<<1, 1>>] = 4
    /\ last.returned_response # << >>
    /\ attempts[<<1, 2>>] = 0
    /\ \E r \in WithEngine : r.chain = <<1, 2>> /\ r.meta.retry_times = 0

\* the context kind of a request, read off its meta
Kind(request) ==
    IF IsIndexQuery(request) /\ IsSnapshot(request) THEN "IndexQuery+Snapshot"
    ELSE IF IsIndexQuery(request) THEN "IndexQuery"
    ELSE IF IsSnapshot(request) THEN "Snapshot"
    ELSE "Unclassified"

\* the latest response was answered by a copy of its request
Retried == AfterResponse /\ last.returned_request # << >>

\* C19: the copy re-issued for a 5xx response is the failed request with its
\* retry counter one greater and duplicate filtering off, and nothing else
\* changed: URL, context kind, original request and archived instant are those
\* of the failed request; every request with the engine has exactly one context
\* kind, and no retry counter exceeds 3.
C19_RetryFrame ==
    /\ Retried
       => LET failed == last.request[1]
              copy   == last.returned_request[1]
          IN  /\ last.response[1].status >= 500
              /\ copy.meta.retry_times = failed.meta.retry_times + 1
              /\ copy.dont_filter
              /\ copy = [failed EXCEPT !.meta.retry_times = copy.meta.retry_times,
                                       !.dont_filter = copy.dont_filter]
              /\ copy.url = failed.url
              /\ Kind(copy) = Kind(failed)
              /\ copy.meta.wayback_machine_original_request
                     = failed.meta.wayback_machine_original_request
              /\ copy.meta.wayback_machine_time = failed.meta.wayback_machine_time
              /\ copy.chain = failed.chain
    /\ \A r \in WithEngine :
           /\ Kind(r) \in {"Unclassified", "IndexQuery", "Snapshot"}
           /\ r.meta.retry_times <= 3
    /\ AfterResponse => last.request[1].meta.retry_times <= 3

\* C19 witness: the third copy of a snapshot request, made of the second on a
\* 503, carrying the snapshot's instant
C19_Witness ==
    /\ Retried
    /\ Kind(last.request[1]) = "Snapshot"
    /\ last.request[1].meta.retry_times = 2
    /\ last.returned_request[1].meta.retry_times = 3
    /\ last.returned_request[1].meta.wayback_machine_time.parsed
    /\ last.returned_request[1] \in scheduler

\* __init__ has run to its end or raised
Constructed == last.op \in {"__init__", "NotConfigured", "AttributeError"}

\* the setting is one time or a pair of times
InstantOrPair(setting) == ~setting.seq \/ Len(setting.times) = 2

\* every time of the setting names an instant
Parsable(setting) ==
    \A k \in 1..Len(setting.times) :
        /\ setting.times[k].type \in {"int", "str", "datetime"}
        /\ setting.times[k].form \in {"epoch", "timestamp", ""}

\* C20 (as claimed): for every setting construction accepts, one instant or a
\* pair of parsable instants in either order, the window installed has
\* start <= end; a window with start > end is never installed; a setting with
\* a time that cannot be parsed installs no window and ends in the
\* configuration error.
C20_WindowOrdered ==
    (Constructed /\ InstantOrPair(settings))
    => IF Parsable(settings)
       THEN /\ last.op = "__init__"
            /\ Len(time_range) = 2
            /\ time_range[1] <= time_range[2]
       ELSE /\ time_range = << >>
            /\ last.op = "NotConfigured"

\* the part of C20 that holds: a setting with a time that cannot be parsed
\* installs no window
C20_UnparsableInstallsNothing ==
    (Constructed /\ ~Parsable(settings)) => (time_range = << >> /\ last.op # "__init__")

\* the middle of C20 on its own: a window with start > end is never installed
C20_StartNotAfterEnd ==
    (last.op = "__init__" /\ Len(time_range) = 2) => time_range[1] <= time_range[2]

====
